---- MODULE Spec2Model ----
(***************************************************************************)
(* SPV proved transaction (src/src/proved.rs).                             *)
(*                                                                         *)
(* A ProvedTransaction holds a transaction, the Merkle path from its       *)
(* identifier to the root of the block's transaction tree, and the hash of *)
(* the block.  compute_proof extracts the path, merkle_root folds it back. *)
(*                                                                         *)
(* Hashes are modelled as byte strings (sequences of naturals).  The       *)
(* double-SHA256 primitive is modelled as a collision-free function: the   *)
(* digest of a message is the message behind a 0 tag.  Transaction         *)
(* identifiers are one-element strings with a non-zero element, so every   *)
(* hash is a term in prefix notation and two messages made of two hashes   *)
(* have equal digests only when they are the same two hashes in the same   *)
(* order.                                                                  *)
(***************************************************************************)
EXTENDS Integers, Sequences, FiniteSets, TLC

\* ---------------------------------------------------------------- bounds
\* largest number of transactions in a block
MaxTx == 5
\* number of different transactions in a block that repeats transactions
NumTx == 2
\* number of different block headers
NumHeader == 2
\* longest merkle path of a ProvedTransaction that no builder produced
MaxPath == 2

Txs == 1..NumTx
Headers == 1..NumHeader
\* values of the track / txnr argument: in range, n, and beyond n
Tracks == 0..(MaxTx + 1)

RECURSIVE SeqsUpTo(_, _)
SeqsUpTo(S, n) ==
    IF n = 0 THEN {<<>>}
    ELSE LET shorter == SeqsUpTo(S, n - 1)
         IN  shorter \cup {Append(s, x) : s \in {q \in shorter : Len(q) = n - 1}, x \in S}

\* bitcoin::Block: a header and the ordered transactions, which are either a
\* few transactions in any arrangement or pairwise different
Blocks ==
    [header : Headers,
     txdata : SeqsUpTo(Txs, MaxTx) \cup {[k \in 1..m |-> k] : m \in 0..MaxTx}]

\* ------------------------------------------------------------ Option<T>
None == <<>>
Some(x) == <<x>>

\* ------------------------------------------------------------- hashing
\* sha256d::Hash::engine() / TxMerkleNode::engine(): an empty message
engine == <<>>
\* HashEngine::input: append the bytes to the message
input(e, bytes) == e \o bytes
\* Hash::from_engine: the double SHA256 digest of the message
from_engine(e) == <<0>> \o e
\* Transaction::txid: the identifier hash of a transaction
txid(t) == <<t>>
\* BlockHeader::bitcoin_hash: the hash of the header
bitcoin_hash(h) == <<0, 0, h>>

\* ------------------------------------------------------------ binhash
Min(a, b) == IF a < b THEN a ELSE b

\* hashes.chunks(2): consecutive pairs, the last chunk alone if the count is odd
chunks2(hashes) ==
    [c \in 1..((Len(hashes) + 1) \div 2) |->
        SubSeq(hashes, 2 * c - 1, Min(2 * c, Len(hashes)))]

\* pairOp with the side flag of a right-hand tracked id inverted
pairOpWrongSide(pair, i, track, op) ==
    IF Len(pair) = 1
    THEN IF track = i * 2 THEN Some([t |-> i, left |-> FALSE, hash |-> pair[1]])
         ELSE IF track = i * 2 + 1 THEN Some([t |-> i, left |-> TRUE, hash |-> pair[1]])
         ELSE op
    ELSE IF track = i * 2 THEN Some([t |-> i, left |-> FALSE, hash |-> pair[2]])
         ELSE IF track = i * 2 + 1 THEN Some([t |-> i, left |-> FALSE, hash |-> pair[1]])
         ELSE op

\* pairOp recording the tracked hash itself for a left-hand tracked id
pairOpWrongSibling(pair, i, track, op) ==
    IF Len(pair) = 1
    THEN IF track = i * 2 THEN Some([t |-> i, left |-> FALSE, hash |-> pair[1]])
         ELSE IF track = i * 2 + 1 THEN Some([t |-> i, left |-> TRUE, hash |-> pair[1]])
         ELSE op
    ELSE IF track = i * 2 THEN Some([t |-> i, left |-> FALSE, hash |-> pair[1]])
         ELSE IF track = i * 2 + 1 THEN Some([t |-> i, left |-> TRUE, hash |-> pair[1]])
         ELSE op

\* pairOp recording, for a right-hand tracked id, the operation of its left
\* neighbour
pairOpOtherLeaf(pair, i, track, op) ==
    IF Len(pair) = 1
    THEN IF track = i * 2 THEN Some([t |-> i, left |-> FALSE, hash |-> pair[1]])
         ELSE IF track = i * 2 + 1 THEN Some([t |-> i, left |-> TRUE, hash |-> pair[1]])
         ELSE op
    ELSE IF track = i * 2 THEN Some([t |-> i, left |-> FALSE, hash |-> pair[2]])
         ELSE IF track = i * 2 + 1 THEN Some([t |-> i, left |-> FALSE, hash |-> pair[2]])
         ELSE op

\* the operation recorded for the tracked id by one chunk (i counts from 0)
pairOp(pair, i, track, op) ==
    IF Len(pair) = 1
    THEN IF track = i * 2 THEN Some([t |-> i, left |-> FALSE, hash |-> pair[1]])
         ELSE IF track = i * 2 + 1 THEN Some([t |-> i, left |-> TRUE, hash |-> pair[1]])
         ELSE op
    ELSE IF track = i * 2 THEN Some([t |-> i, left |-> FALSE, hash |-> pair[2]])
         ELSE IF track = i * 2 + 1 THEN Some([t |-> i, left |-> TRUE, hash |-> pair[1]])
         ELSE op

\* pairHash promoting a lone last hash unpaired
pairHashPromote(pair) ==
    IF Len(pair) = 1
    THEN pair[1]
    ELSE from_engine(input(input(engine, pair[1]), pair[2]))

\* the parent hash pushed for one chunk
pairHash(pair) ==
    IF Len(pair) = 1
    THEN from_engine(input(input(engine, pair[1]), pair[1]))
    ELSE from_engine(input(input(engine, pair[1]), pair[2]))

\* the for loop over hashes.chunks(2).enumerate()
RECURSIVE binhashLoop(_, _, _, _, _)
binhashLoop(chunks, track, i, result, op) ==
    IF i >= Len(chunks) THEN [result |-> result, op |-> op]
    ELSE binhashLoop(chunks, track, i + 1,
                     Append(result, pairHash(chunks[i + 1])),
                     pairOp(chunks[i + 1], i, track, op))

\* binhash that stops reducing one level early
binhashEarlyStop(hashes, track) ==
    IF Len(hashes) > 2
    THEN binhashLoop(chunks2(hashes), track, 0, <<>>, None)
    ELSE [result |-> <<>>, op |-> None]

\* binhash that also reduces a single hash
binhashNoGuard(hashes, track) ==
    IF Len(hashes) >= 1
    THEN binhashLoop(chunks2(hashes), track, 0, <<>>, None)
    ELSE [result |-> <<>>, op |-> None]

\* one step of the reduction to merkle root
binhash(hashes, track) ==
    IF Len(hashes) > 1
    THEN binhashLoop(chunks2(hashes), track, 0, <<>>, None)
    ELSE [result |-> <<>>, op |-> None]

\* --------------------------------------------------------- merkle_root
\* foldStep with the two branches exchanged
foldStepSwapped(a, e) ==
    IF e.left
    THEN from_engine(input(input(engine, a), e.hash))
    ELSE from_engine(input(input(engine, e.hash), a))

\* the closure folded over merkle_path
foldStep(a, e) ==
    IF e.left
    THEN from_engine(input(input(engine, e.hash), a))
    ELSE from_engine(input(input(engine, a), e.hash))

RECURSIVE foldPath(_, _)
foldPath(a, path) ==
    IF path = <<>> THEN a
    ELSE foldPath(foldStep(a, Head(path)), Tail(path))

\* merkle_root that hashes the identifier once more before folding
merkle_rootRehash(p) == foldPath(from_engine(input(engine, txid(p.transaction))), p.merkle_path)

\* merkle_root that hashes block_hash into the start of the fold
merkle_rootBound(p) ==
    foldPath(from_engine(input(input(engine, p.block_hash), txid(p.transaction))),
             p.merkle_path)

\* compute the merkle root implied by the SPV proof
merkle_root(p) == foldPath(txid(p.transaction), p.merkle_path)

\* ---------------------------------------------------------------- state
VARIABLES
    block,      \* the block the caller holds
    pc,         \* "idle", "loop" (inside compute_proof) or "panicked"
    caller,     \* who entered compute_proof: "compute_proof" or "new"
    track0,     \* the track argument compute_proof was entered with
    ids,        \* compute_proof's working sequence of hashes
    track,      \* compute_proof's tracked position
    proof,      \* compute_proof's path so far
    pt,         \* the ProvedTransaction the caller holds (None before one is built)
    ret,        \* the value the last completed call returned
    firstProof, \* a record of the first path a direct compute_proof call returned,
                \* its track argument, and whether a later call with that track
                \* has returned (kept by ReturnRecorded only)
    firstRoot,  \* the first root merkle_root returned for the current pt, and
                \* whether merkle_root has returned again since
    threads     \* the computations that run side by side, each with its own
                \* input, position, locals and result (none in a sequential run)

vars == <<block, pc, caller, track0, ids, track, proof, pt, ret, firstProof, firstRoot,
          threads>>

NoRet == [op |-> "none", arg |-> 0, val |-> <<>>]

Init ==
    /\ block \in Blocks
    /\ pc = "idle"
    /\ caller = "none"
    /\ track0 = 0
    /\ ids = <<>>
    /\ track = 0
    /\ proof = <<>>
    /\ pt = None
    /\ ret = NoRet
    /\ firstProof = None
    /\ firstRoot = None
    /\ threads = <<>>

\* the map over block.txdata that collects the identifiers
txids(b) == [k \in 1..Len(b.txdata) |-> txid(b.txdata[k])]

\* the while let loop of compute_proof run to its end
RECURSIVE computeProofFrom(_, _, _)
computeProofFrom(hashes, trk, path) ==
    LET r == binhash(hashes, trk)
    IN  IF r.op = None THEN path
        ELSE computeProofFrom(r.result, r.op[1].t,
                              Append(path, [left |-> r.op[1].left, hash |-> r.op[1].hash]))

\* compute a proof for a transaction in a block
compute_proof(trk, b) == computeProofFrom(txids(b), trk, <<>>)

\* entry of compute_proof that appends to the path buffer of the last call
enterComputeProofReuse(who, t) ==
    /\ pc' = "loop"
    /\ caller' = who
    /\ track0' = t
    /\ ids' = txids(block)
    /\ track' = t
    /\ proof' = proof
    /\ ret' = NoRet

\* entry of compute_proof: the locals before the first iteration
enterComputeProof(who, t) ==
    /\ pc' = "loop"
    /\ caller' = who
    /\ track0' = t
    /\ ids' = txids(block)
    /\ track' = t
    /\ proof' = <<>>
    /\ ret' = NoRet

\* a direct call ProvedTransaction::compute_proof(t, &block)
ComputeProofCall(t) ==
    /\ pc = "idle"
    /\ enterComputeProof("compute_proof", t)
    /\ UNCHANGED <<threads, block, pt, firstProof, firstRoot>>

\* new() with a bounds check that lets txnr = len through
NewCallOffByOne(txnr) ==
    /\ pc = "idle"
    /\ IF txnr > Len(block.txdata)
       THEN /\ pc' = "panicked"
            /\ ret' = NoRet
            /\ UNCHANGED <<caller, track0, ids, track, proof>>
       ELSE enterComputeProof("new", txnr)
    /\ UNCHANGED <<threads, block, pt, firstProof, firstRoot>>

\* ProvedTransaction::new(&block, txnr): the lookup block.txdata[txnr] panics
\* when txnr is out of bounds, otherwise compute_proof is entered
NewCall(txnr) ==
    /\ pc = "idle"
    /\ IF txnr >= Len(block.txdata)
       THEN /\ pc' = "panicked"
            /\ ret' = NoRet
            /\ UNCHANGED <<caller, track0, ids, track, proof>>
       ELSE enterComputeProof("new", txnr)
    /\ UNCHANGED <<threads, block, pt, firstProof, firstRoot>>

\* an iteration that forgets to move the tracked position up a level
LoopStepKeepTrack ==
    /\ pc = "loop"
    /\ LET r == binhash(ids, track)
       IN  /\ r.op # None
           /\ proof' = Append(proof, [left |-> r.op[1].left, hash |-> r.op[1].hash])
           /\ ids' = r.result
           /\ track' = track
    /\ UNCHANGED <<threads, block, pc, caller, track0, pt, ret, firstProof, firstRoot>>

\* one iteration of the while let loop: binhash found the tracked id
LoopStep ==
    /\ pc = "loop"
    /\ LET r == binhash(ids, track)
       IN  /\ r.op # None
           /\ proof' = Append(proof, [left |-> r.op[1].left, hash |-> r.op[1].hash])
           /\ ids' = r.result
           /\ track' = r.op[1].t
    /\ UNCHANGED <<threads, block, pc, caller, track0, pt, ret, firstProof, firstRoot>>

\* the value new() builds from the returned path
newValue(b, txnr, path) ==
    [transaction |-> b.txdata[txnr + 1],
     merkle_path |-> path,
     block_hash  |-> bitcoin_hash(b.header)]

\* the while let pattern fails: compute_proof returns proof.  The locals keep
\* their last values until the next call initialises them again.
LoopExit ==
    /\ pc = "loop"
    /\ binhash(ids, track).op = None
    /\ pc' = "idle"
    /\ IF caller = "new"
       THEN /\ pt' = Some(newValue(block, track0, proof))
            /\ ret' = [op |-> "new", arg |-> track0, val |-> newValue(block, track0, proof)]
            /\ firstRoot' = None
       ELSE /\ ret' = [op |-> "compute_proof", arg |-> track0, val |-> proof]
            /\ UNCHANGED <<pt, firstRoot>>
    /\ UNCHANGED <<threads, block, caller, track0, ids, track, proof>>

\* the return of compute_proof, nothing recorded
Return == LoopExit /\ UNCHANGED firstProof

\* the return of compute_proof, the path of a direct call recorded: the first
\* one is kept, a later one with the same track is noted
ReturnRecorded ==
    /\ LoopExit
    /\ firstProof' =
           IF caller # "compute_proof" THEN firstProof
           ELSE IF firstProof = None
                THEN Some([arg |-> track0, val |-> proof, again |-> FALSE])
                ELSE IF firstProof[1].arg = track0
                     THEN Some([firstProof[1] EXCEPT !.again = TRUE])
                     ELSE firstProof

\* merkle_root that drains merkle_path while folding it
MerkleRootCallDrain ==
    /\ pc = "idle"
    /\ pt # None
    /\ ret' = [op |-> "merkle_root", arg |-> 0, val |-> merkle_root(pt[1])]
    /\ pt' = Some([pt[1] EXCEPT !.merkle_path = <<>>])
    /\ firstRoot' = IF firstRoot = None
                    THEN Some([val |-> merkle_root(pt[1]), again |-> FALSE])
                    ELSE Some([firstRoot[1] EXCEPT !.again = TRUE])
    /\ UNCHANGED <<threads, block, pc, caller, track0, ids, track, proof, firstProof>>

\* pt.merkle_root()
MerkleRootCall ==
    /\ pc = "idle"
    /\ pt # None
    /\ ret' = [op |-> "merkle_root", arg |-> 0, val |-> merkle_root(pt[1])]
    /\ firstRoot' = IF firstRoot = None
                    THEN Some([val |-> merkle_root(pt[1]), again |-> FALSE])
                    ELSE Some([firstRoot[1] EXCEPT !.again = TRUE])
    /\ UNCHANGED <<threads, block, pc, caller, track0, ids, track, proof, pt, firstProof>>

\* pt.get_transaction()
GetTransaction ==
    /\ pc = "idle"
    /\ pt # None
    /\ ret' = [op |-> "get_transaction", arg |-> 0, val |-> pt[1].transaction]
    /\ UNCHANGED <<threads, block, pc, caller, track0, ids, track, proof, pt, firstProof, firstRoot>>

\* pt.get_block_hash()
GetBlockHash ==
    /\ pc = "idle"
    /\ pt # None
    /\ ret' = [op |-> "get_block_hash", arg |-> 0, val |-> pt[1].block_hash]
    /\ UNCHANGED <<threads, block, pc, caller, track0, ids, track, proof, pt, firstProof, firstRoot>>

\* the proof builder: direct calls of compute_proof on the block
Next ==
    \/ \E t \in Tracks : ComputeProofCall(t)
    \/ LoopStep
    \/ Return

Spec == Init /\ [][Next]_vars

\* the proof builder called again and again, its first result recorded
NextRec ==
    \/ \E t \in Tracks : ComputeProofCall(t)
    \/ LoopStep
    \/ ReturnRecorded

SpecRec == Init /\ [][NextRec]_vars

\* the proof builder with a loop that keeps running once entered
SpecFair == Spec /\ WF_vars(LoopStep) /\ WF_vars(Return)

\* the constructor and the accessors of the value it builds
NextNew ==
    \/ \E txnr \in Tracks : NewCall(txnr)
    \/ LoopStep
    \/ Return
    \/ MerkleRootCall
    \/ GetTransaction
    \/ GetBlockHash

SpecNew == Init /\ [][NextNew]_vars

\* sibling hashes of a path that no builder produced
SomeHashes == {txid(t) : t \in Txs} \cup {from_engine(input(input(engine, txid(1)), txid(1)))}

\* every value of the struct with a short path: the fields are filled in by
\* a struct literal (as the test does) or by the derived Deserialize
ProvedTransactions ==
    [transaction : Txs,
     merkle_path : SeqsUpTo([left : BOOLEAN, hash : SomeHashes], MaxPath),
     block_hash  : {bitcoin_hash(h) : h \in Headers}]

\* a consumer that holds a ProvedTransaction and no block
InitPT ==
    /\ block = [header |-> 1, txdata |-> <<>>]
    /\ pc = "idle"
    /\ caller = "none"
    /\ track0 = 0
    /\ ids = <<>>
    /\ track = 0
    /\ proof = <<>>
    /\ pt \in {Some(p) : p \in ProvedTransactions}
    /\ ret = NoRet
    /\ firstProof = None
    /\ firstRoot = None
    /\ threads = <<>>

NextPT ==
    \/ MerkleRootCall
    \/ GetTransaction
    \/ GetBlockHash

SpecPT == InitPT /\ [][NextPT]_vars

\* ------------------------------------------------- concurrent invocation
\* two computations side by side
Threads == {1, 2}

\* the blocks handed to concurrent computations: pairwise different transactions
ConcBlocks == {[header |-> 1, txdata |-> [k \in 1..m |-> k]] : m \in 0..MaxTx}

\* the values new() builds from those blocks
ConcProved ==
    {newValue(b, t, compute_proof(t, b)) :
        b \in {c \in ConcBlocks : Len(c.txdata) = MaxTx}, t \in 0..(MaxTx - 1)}
    \cup {newValue(b, 0, compute_proof(0, b)) : b \in {c \in ConcBlocks : Len(c.txdata) >= 1}}

\* a computation that has not started: its own copy of its input and fresh locals
thread(op, b, t, p) ==
    [op |-> op, blk |-> b, arg |-> t, p |-> p, pc |-> "start",
     ids |-> <<>>, track |-> 0, proof |-> <<>>, acc |-> <<>>, rest |-> <<>>,
     ret |-> <<>>]

NoBlock == [header |-> 1, txdata |-> <<>>]
NoProved == [transaction |-> 1, merkle_path |-> <<>>, block_hash |-> bitcoin_hash(1)]

ProofTasks == {thread("compute_proof", b, t, NoProved) : b \in ConcBlocks, t \in Tracks}
RootTasks == {thread("merkle_root", NoBlock, 0, p) : p \in ConcProved}

InitConc ==
    /\ block = NoBlock
    /\ pc = "idle"
    /\ caller = "none"
    /\ track0 = 0
    /\ ids = <<>>
    /\ track = 0
    /\ proof = <<>>
    /\ pt = None
    /\ ret = NoRet
    /\ firstProof = None
    /\ firstRoot = None
    /\ threads \in [Threads -> ProofTasks \cup RootTasks]

\* compute_proof in thread t with its path kept in a buffer all threads share
ThreadProofShared(t) ==
    LET th == threads[t]
        r  == binhash(th.ids, th.track)
    IN  /\ th.op = "compute_proof"
        /\ \/ /\ th.pc = "start"
              /\ threads' = [threads EXCEPT ![t] =
                     [th EXCEPT !.pc = "loop", !.ids = txids(th.blk),
                                !.track = th.arg]]
              /\ proof' = <<>>
           \/ /\ th.pc = "loop"
              /\ r.op # None
              /\ threads' = [threads EXCEPT ![t] =
                     [th EXCEPT !.ids = r.result, !.track = r.op[1].t]]
              /\ proof' = Append(proof, [left |-> r.op[1].left, hash |-> r.op[1].hash])
           \/ /\ th.pc = "loop"
              /\ r.op = None
              /\ threads' = [threads EXCEPT ![t] =
                     [th EXCEPT !.pc = "done", !.ret = proof]]
              /\ proof' = proof
        /\ UNCHANGED <<block, pc, caller, track0, ids, track, pt, ret,
                       firstProof, firstRoot>>

\* compute_proof in thread t, one step at a time: the entry, an iteration of
\* the while let loop, or the return
ThreadProof(t) ==
    LET th == threads[t]
        r  == binhash(th.ids, th.track)
    IN  /\ th.op = "compute_proof"
        /\ \/ /\ th.pc = "start"
              /\ threads' = [threads EXCEPT ![t] =
                     [th EXCEPT !.pc = "loop", !.ids = txids(th.blk),
                                !.track = th.arg, !.proof = <<>>]]
           \/ /\ th.pc = "loop"
              /\ r.op # None
              /\ threads' = [threads EXCEPT ![t] =
                     [th EXCEPT !.ids = r.result, !.track = r.op[1].t,
                                !.proof = Append(th.proof,
                                    [left |-> r.op[1].left, hash |-> r.op[1].hash])]]
           \/ /\ th.pc = "loop"
              /\ r.op = None
              /\ threads' = [threads EXCEPT ![t] =
                     [th EXCEPT !.pc = "done", !.ret = th.proof]]
        /\ UNCHANGED <<block, pc, caller, track0, ids, track, proof, pt, ret,
                       firstProof, firstRoot>>

\* merkle_root in thread t, one step at a time: the initial accumulator, one
\* call of the closure, or the return of the fold
ThreadRoot(t) ==
    LET th == threads[t]
    IN  /\ th.op = "merkle_root"
        /\ \/ /\ th.pc = "start"
              /\ threads' = [threads EXCEPT ![t] =
                     [th EXCEPT !.pc = "loop", !.acc = txid(th.p.transaction),
                                !.rest = th.p.merkle_path]]
           \/ /\ th.pc = "loop"
              /\ th.rest # <<>>
              /\ threads' = [threads EXCEPT ![t] =
                     [th EXCEPT !.acc = foldStep(th.acc, Head(th.rest)),
                                !.rest = Tail(th.rest)]]
           \/ /\ th.pc = "loop"
              /\ th.rest = <<>>
              /\ threads' = [threads EXCEPT ![t] =
                     [th EXCEPT !.pc = "done", !.ret = th.acc]]
        /\ UNCHANGED <<block, pc, caller, track0, ids, track, proof, pt, ret,
                       firstProof, firstRoot>>

\* any thread takes its next step
NextConc ==
    \/ \E t \in Threads : ThreadProof(t)
    \/ \E t \in Threads : ThreadRoot(t)

SpecConc == InitConc /\ [][NextConc]_vars

\* ============================================================== claims

\* number of transactions in the block
n == Len(block.txdata)

\* a direct compute_proof call has returned
Returned == pc = "idle" /\ ret.op = "compute_proof"

\* ... and its track argument was an index of the block
ReturnedInRange == Returned /\ n >= 1 /\ ret.arg < n

\* the transaction a returned call tracked
trackedTx == block.txdata[ret.arg + 1]

\* the ProvedTransaction the test builds from a returned path
proved(path) ==
    [transaction |-> trackedTx,
     merkle_path |-> path,
     block_hash  |-> bitcoin_hash(block.header)]

\* ---- the Bitcoin Merkle tree the claims refer to
\* DoubleHash(left || right)
DoubleHash(l, r) == <<0>> \o l \o r

\* the parents of a level: consecutive pairs, a lone last node paired with itself
ParentLevel(hs) ==
    [j \in 1..((Len(hs) + 1) \div 2) |->
        DoubleHash(hs[2 * j - 1], IF 2 * j <= Len(hs) THEN hs[2 * j] ELSE hs[2 * j - 1])]

\* level k of the tree over the leaves (level 0 is the leaves)
RECURSIVE TreeLevel(_, _)
TreeLevel(leaves, k) ==
    IF k = 0 THEN leaves ELSE ParentLevel(TreeLevel(leaves, k - 1))

\* the root of the tree over a non-empty sequence of leaves
RECURSIVE TreeRoot(_)
TreeRoot(hs) == IF Len(hs) = 1 THEN hs[1] ELSE TreeRoot(ParentLevel(hs))

\* the identifiers of the block's transactions, in order
Leaves == [k \in 1..n |-> txid(block.txdata[k])]

RECURSIVE Pow2(_)
Pow2(k) == IF k = 0 THEN 1 ELSE 2 * Pow2(k - 1)

\* the least k with 2^k >= m
CeilLog2(m) == CHOOSE k \in 0..m : Pow2(k) >= m /\ (k = 0 \/ Pow2(k - 1) < m)

\* C1: round trip.  For a block with n >= 1 transactions and an index i in
\* [0, n), the path compute_proof(i, block) returns, folded by merkle_root
\* from the identifier of transaction i, is the root of the block's Merkle tree.
RoundTrip ==
    ReturnedInRange => merkle_root(proved(ret.val)) = TreeRoot(Leaves)

\* a proof for the last of five transactions has been returned: the tracked
\* node is alone at two levels
RoundTripWitness ==
    /\ ReturnedInRange
    /\ n = 5
    /\ ret.arg = 4
    /\ Len(ret.val) = 3

\* C2 (as claimed): compute_proof with track >= n, n >= 1, never returns a path.
NoPathOutOfRange ==
    ~(Returned /\ n >= 1 /\ ret.arg >= n)

\* C3 (as claimed): compute_proof on a block without transactions never
\* returns a path.
NoPathEmptyBlock ==
    ~(Returned /\ n = 0)

\* C4: path length.  For n >= 1 and i in [0, n) the returned path has exactly
\* ceil(log2(n)) entries, whatever i is.
PathLength ==
    ReturnedInRange => Len(ret.val) = CeilLog2(n)

\* a three-entry path has been returned for the first of five transactions
PathLengthWitness ==
    /\ ReturnedInRange
    /\ n = 5
    /\ ret.arg = 0
    /\ Len(ret.val) = 3

\* C5: single leaf.  For a block with exactly one transaction
\* compute_proof(0, block) returns the empty path, and merkle_root over that
\* path is the transaction's identifier.
SingleLeaf ==
    (Returned /\ n = 1 /\ ret.arg = 0) =>
        /\ ret.val = <<>>
        /\ merkle_root(proved(ret.val)) = txid(block.txdata[1])

\* compute_proof(0, block) has returned for a one-transaction block
SingleLeafWitness ==
    /\ Returned
    /\ n = 1
    /\ ret.arg = 0
    /\ block.txdata = <<2>>

\* C6: odd-count duplication.  Whenever the loop reduces a level with an odd
\* number of hashes, the last hash x is paired with itself: the last parent is
\* DoubleHash(x || x); when the tracked node is that lone last element, the
\* entry appended for the level is (sibling-is-before = false, x); and the
\* path returned for a node that was alone at some level still folds to the
\* block's Merkle root.  (A level is a sequence the loop pairs up: the single
\* hash that remains at the end is the root and is paired with nothing.)
OddDuplicationStep ==
    (pc = "loop" /\ Len(proof') = Len(proof) + 1 /\ Len(ids) % 2 = 1) =>
        LET x == ids[Len(ids)]
        IN  /\ Len(ids') = (Len(ids) + 1) \div 2
            /\ ids'[Len(ids')] = DoubleHash(x, x)
            /\ (track = Len(ids) - 1 =>
                    proof'[Len(proof')] = [left |-> FALSE, hash |-> x])

\* the tracked node of the returned call was the lone last node of some level
LoneAtSomeLevel ==
    \E k \in 0..(Len(ret.val) - 1) :
        LET lvl == TreeLevel(Leaves, k)
        IN  /\ Len(lvl) % 2 = 1
            /\ Len(lvl) > 1
            /\ ret.arg \div Pow2(k) = Len(lvl) - 1

OddDuplicationFold ==
    (ReturnedInRange /\ LoneAtSomeLevel) =>
        merkle_root(proved(ret.val)) = TreeRoot(Leaves)

OddDuplication == []OddDuplicationFold /\ [][OddDuplicationStep]_vars

\* the proof of the last of five different transactions has been returned: the
\* node was alone among five leaves and again among their three parents
OddDuplicationWitness ==
    /\ ReturnedInRange
    /\ block.txdata = <<1, 2, 3, 4, 5>>
    /\ ret.arg = 4
    /\ LoneAtSomeLevel
    /\ ret.val[1] = [left |-> FALSE, hash |-> <<5>>]
    /\ ret.val[2] = [left |-> FALSE, hash |-> <<0, 5, 5>>]

\* ---- the fold the claims refer to
\* the accumulator after the first k entries of the path
RECURSIVE RefAcc(_, _, _)
RefAcc(id, path, k) ==
    IF k = 0 THEN id
    ELSE LET acc == RefAcc(id, path, k - 1)
         IN  IF path[k].left
             THEN DoubleHash(path[k].hash, acc)
             ELSE DoubleHash(acc, path[k].hash)

\* C7: merkle_root is total and equals the reference fold.  For every
\* transaction and every path (any length, flags and sibling hashes, built by
\* compute_proof or not) the call is possible, does not panic, and returns the
\* value got by starting from the identifier and setting, entry by entry,
\* acc = DoubleHash(sibling || acc) when sibling_is_before and
\* acc = DoubleHash(acc || sibling) otherwise.
MerkleRootIsFold ==
    /\ pc # "panicked"
    /\ (pt # None => ENABLED MerkleRootCall)
    /\ (ret.op = "merkle_root" =>
            ret.val = RefAcc(txid(pt[1].transaction), pt[1].merkle_path,
                             Len(pt[1].merkle_path)))

\* merkle_root has returned for a two-entry path with one sibling before and
\* one after, under a transaction the siblings do not come from
MerkleRootIsFoldWitness ==
    /\ ret.op = "merkle_root"
    /\ pt[1].transaction = 2
    /\ pt[1].merkle_path = << [left |-> TRUE, hash |-> <<1>>],
                              [left |-> FALSE, hash |-> <<0, 1, 1>>] >>
    /\ ret.val = <<0, 0, 1, 2, 0, 1, 1>>

\* C8: path content and order.  For n >= 1 and i in [0, n), entry k of the
\* returned path (counted from 0 at the leaves) has sibling_is_before = true
\* exactly when floor(i / 2^k) is odd, and its hash is the level-k node paired
\* with the tracked node: the right neighbour when the tracked node is on the
\* left (the tracked node itself when it has no right neighbour), the left
\* neighbour when the tracked node is on the right.
PathContent ==
    ReturnedInRange =>
        \A k \in 0..(Len(ret.val) - 1) :
            LET pos == ret.arg \div Pow2(k)
                lvl == TreeLevel(Leaves, k)
                e   == ret.val[k + 1]
            IN  /\ e.left = (pos % 2 = 1)
                /\ e.hash = IF pos % 2 = 1 THEN lvl[pos]
                            ELSE IF pos + 2 <= Len(lvl) THEN lvl[pos + 2]
                            ELSE lvl[pos + 1]

\* the proof of the third of five different transactions has been returned:
\* right neighbour, then left neighbour, then right neighbour
PathContentWitness ==
    /\ ReturnedInRange
    /\ block.txdata = <<1, 2, 3, 4, 5>>
    /\ ret.arg = 2
    /\ ret.val = << [left |-> FALSE, hash |-> <<4>>],
                    [left |-> TRUE, hash |-> <<0, 1, 2>>],
                    [left |-> FALSE, hash |-> <<0, 0, 5, 5, 0, 5, 5>>] >>

\* C9: determinism.  A run of compute_proof returns the path that the first
\* run with the same block and the same track returned, whatever was called
\* in between.
Determinism ==
    (Returned /\ firstProof # None /\ firstProof[1].arg = ret.arg) =>
        ret.val = firstProof[1].val

\* a second run for the last of five transactions has returned after the first
DeterminismWitness ==
    /\ Returned
    /\ n = 5
    /\ ret.arg = 4
    /\ firstProof # None
    /\ firstProof[1].arg = 4
    /\ firstProof[1].again
    /\ Len(ret.val) = 3

\* C10: immutability.  Every call of merkle_root, get_transaction and
\* get_block_hash on a constructed ProvedTransaction leaves its three fields
\* as they were, and every merkle_root call returns what the first one did.
Immutability ==
    [][/\ pt' = pt
       /\ ((ret'.op = "merkle_root" /\ firstRoot # None) =>
               ret'.val = firstRoot[1].val)]_vars

\* merkle_root has returned a second time for a two-entry path
ImmutabilityWitness ==
    /\ ret.op = "merkle_root"
    /\ firstRoot # None
    /\ firstRoot[1].again
    /\ Len(pt[1].merkle_path) = 2

\* C11: no binding to block_hash.  The root merkle_root returns is the root of
\* every ProvedTransaction with the same transaction and the same merkle_path,
\* whatever its block_hash; the call compares the root with nothing, so it
\* returns for every path and never panics.
NoBlockHashBinding ==
    /\ pc # "panicked"
    /\ (pt # None => ENABLED MerkleRootCall)
    /\ (ret.op = "merkle_root" =>
            \A p \in ProvedTransactions :
                (p.transaction = pt[1].transaction /\ p.merkle_path = pt[1].merkle_path)
                    => merkle_root(p) = ret.val)

\* merkle_root has returned for a two-entry path held with the hash of the
\* second header; the same transaction and path exist with the first header's
NoBlockHashBindingWitness ==
    /\ ret.op = "merkle_root"
    /\ pt[1].block_hash = bitcoin_hash(2)
    /\ Len(pt[1].merkle_path) = 2
    /\ [pt[1] EXCEPT !.block_hash = bitcoin_hash(1)] \in ProvedTransactions

\* the least q with q * b >= a
CeilDiv(a, b) == (a + b - 1) \div b

\* C13: loop invariant of compute_proof.  For an in-range start (n >= 1,
\* track0 < n), whenever the loop is about to run binhash there is a k such
\* that the path holds exactly k entries, the working sequence is level k of
\* the block's Merkle tree and has ceil(n / 2^k) hashes, and the tracked
\* position is floor(track0 / 2^k) and less than the length of the sequence.
LoopInvariant ==
    (pc = "loop" /\ n >= 1 /\ track0 < n) =>
        \E k \in 0..CeilLog2(n) :
            /\ Len(proof) = k
            /\ ids = TreeLevel(Leaves, k)
            /\ Len(ids) = CeilDiv(n, Pow2(k))
            /\ track = track0 \div Pow2(k)
            /\ track < Len(ids)

\* the loop is at the start of iteration 2 for the last of five transactions
LoopInvariantWitness ==
    /\ pc = "loop"
    /\ n = 5
    /\ track0 = 4
    /\ Len(proof) = 2
    /\ Len(ids) = 2
    /\ track = 1

\* C14: termination.  Once entered, for any block and any track, the loop
\* of compute_proof ends; every iteration shortens the working sequence and
\* runs only on more than one hash; for in-range inputs the loop is left
\* exactly when one hash remains, and the path returned is the path as it
\* was before binhash saw that one hash.
LoopShrinks ==
    (pc = "loop" /\ pc' = "loop" /\ Len(proof') # Len(proof)) =>
        (Len(ids) > 1 /\ Len(ids') < Len(ids))

LoopLeftAtRoot ==
    (pc = "loop" /\ pc' = "idle" /\ n >= 1 /\ track0 < n) =>
        /\ Len(ids) = 1
        /\ ids = <<TreeRoot(Leaves)>>
        /\ ret'.val = proof
        /\ Len(proof) = CeilLog2(n)

Termination ==
    /\ (pc = "loop") ~> (pc = "idle")
    /\ [][LoopShrinks]_vars
    /\ [][LoopLeftAtRoot]_vars

\* the loop has been left for the first of five transactions with the root
\* as the only hash of the working sequence
TerminationWitness ==
    /\ ReturnedInRange
    /\ n = 5
    /\ ret.arg = 0
    /\ ids = <<TreeRoot(Leaves)>>
    /\ Len(ret.val) = 3

\* C15: constructor guard.  new(block, txnr) with txnr >= n (every txnr for an
\* empty block) panics on the transaction lookup: compute_proof is not
\* entered, no ProvedTransaction is yielded and nothing runs after the panic.
\* With txnr in range it returns a value whose transaction is the block's
\* transaction at txnr, whose block_hash is the hash of the block's header and
\* whose merkle_path is compute_proof(txnr, block).
NewInRange ==
    /\ ((pc = "loop" /\ caller = "new") => track0 < n)
    /\ (ret.op = "new" =>
            /\ ret.arg < n
            /\ pt = Some(ret.val)
            /\ ret.val.transaction = block.txdata[ret.arg + 1]
            /\ ret.val.block_hash = bitcoin_hash(block.header)
            /\ ret.val.merkle_path = compute_proof(ret.arg, block))

NewOutOfRange ==
    /\ \A txnr \in Tracks :
          (NewCall(txnr) /\ txnr >= n) =>
              /\ pc' = "panicked"
              /\ ret' = NoRet
              /\ UNCHANGED <<pt, ids, track, proof>>
    /\ (pc = "panicked" => UNCHANGED vars)

ConstructorGuard == []NewInRange /\ [][NewOutOfRange]_vars

\* new() has built the proof of the last of five transactions, and a later
\* new() with txnr = 5 has panicked
ConstructorGuardWitness ==
    /\ pc = "panicked"
    /\ n = 5
    /\ pt # None
    /\ pt[1].transaction = block.txdata[5]
    /\ Len(pt[1].merkle_path) = 3
    /\ ret = NoRet

\* C16: proof soundness for other leaves.  With pairwise different
\* transaction identifiers (and the collision-free hash), for n >= 2 and
\* in-range i # j, the path compute_proof(i, block) folded by merkle_root from
\* the identifier of transaction j is not the block's Merkle root.
DistinctIds ==
    \A a, b \in 1..n : a # b => Leaves[a] # Leaves[b]

OtherLeafRejected ==
    (ReturnedInRange /\ n >= 2 /\ DistinctIds) =>
        \A j \in 0..(n - 1) :
            j # ret.arg =>
                merkle_root([transaction |-> block.txdata[j + 1],
                             merkle_path |-> ret.val,
                             block_hash  |-> bitcoin_hash(block.header)])
                    # TreeRoot(Leaves)

\* the proof of the last of five different transactions has been returned
OtherLeafRejectedWitness ==
    /\ ReturnedInRange
    /\ block.txdata = <<1, 2, 3, 4, 5>>
    /\ DistinctIds
    /\ ret.arg = 4
    /\ Len(ret.val) = 3

\* C12: concurrent invocation.  When compute_proof and merkle_root
\* computations on inputs of their own are interleaved step by step in any
\* order, each returns what it returns when run alone, and a step of one
\* computation changes nothing but that computation's own locals.
alone(th) ==
    IF th.op = "compute_proof" THEN compute_proof(th.arg, th.blk) ELSE merkle_root(th.p)

ResultAsAlone ==
    \A t \in Threads : threads[t].pc = "done" => threads[t].ret = alone(threads[t])

OwnLocalsOnly ==
    /\ \E t \in Threads : \A u \in Threads \ {t} : threads'[u] = threads[u]
    /\ \A t \in Threads :
          /\ threads'[t].op = threads[t].op
          /\ threads'[t].blk = threads[t].blk
          /\ threads'[t].arg = threads[t].arg
          /\ threads'[t].p = threads[t].p
    /\ UNCHANGED <<block, pc, caller, track0, ids, track, proof, pt, ret,
                   firstProof, firstRoot>>

ConcurrentIsolation == []ResultAsAlone /\ [][OwnLocalsOnly]_vars

\* thread 1 has returned the three-entry path of the last of five
\* transactions while thread 2, tracking the first of them, is two
\* iterations into its own loop
ConcurrentIsolationWitness ==
    /\ threads[1].op = "compute_proof"
    /\ threads[1].pc = "done"
    /\ threads[1].arg = 4
    /\ Len(threads[1].ret) = 3
    /\ threads[2].op = "compute_proof"
    /\ threads[2].pc = "loop"
    /\ threads[2].arg = 0
    /\ Len(threads[2].blk.txdata) = 5
    /\ Len(threads[2].proof) = 2

====
